---- MODULE Spec2Model ----
(***************************************************************************)
(* Model of src/src/ExtensionChecker.tsx: the module-level function        *)
(* checkExtensions, the unwanted-list filter, and the ExtensionChecker     *)
(* component (its four pieces of state, its checkAllExtensions callback,   *)
(* its two effects with their timers, its close button and its render      *)
(* decision).                                                              *)
(*                                                                         *)
(* A behaviour is either one lifetime of a mounted component               *)
(* (lifecycle = "rendered" -> "mounted" -> "unmounted") or one direct call *)
(* of checkExtensions followed by the filter (lifecycle = "none",          *)
(* pc = "call" -> "detected" -> "filtered").                               *)
(*                                                                         *)
(* React's scheduling: a state setter takes effect at once (the render is  *)
(* a function of the state), passive effects whose dependencies changed    *)
(* run in a later step (FlushEffects), except after a click, where React   *)
(* flushes them synchronously. Timers and probe completions may fall       *)
(* between a state change and the effects that follow it. The parent may   *)
(* render the component again with another autoHideDuration; the other     *)
(* props keep their values for the lifetime.                               *)
(***************************************************************************)
EXTENDS Integers, Sequences, FiniteSets, TLC

VARIABLES
    hasWindow,            \* typeof window !== "undefined"
    targetExtensions,     \* the catalog: sequence of display names (unique)
    props,                \* the component's props
    checkingExtensions,   \* useState(false)
    installedExtensions,  \* useState([])
    showMessage,          \* useState(false)
    hasShownMessage,      \* useState(false)
    lifecycle,            \* "none", "rendered", "mounted", "unmounted"
    inFlight,             \* rounds awaiting checkExtensions (line 184)
    intervalArmed,        \* a setInterval of line 207 is pending
    effectHas,            \* hasShownMessage captured by the checkAllExtensions
                          \* the re-check effect last ran with (its dependency)
    timeouts,             \* the number of pending setTimeouts of line 215
    hideShow,             \* showMessage the auto-hide effect last ran with
    hideDuration,         \* autoHideDuration the auto-hide effect last ran with
    onDetectCalls,        \* arguments of the onDetect invocations, in order
    pc,                   \* direct call: "none", "call", "detected", "filtered"
    probeOutcomes,        \* direct call: the outcome of each entry's fetch
    detectResult,         \* direct call: what checkExtensions settled to
    filterResult          \* direct call: the filtered list

vars == <<hasWindow, targetExtensions, props, checkingExtensions,
          installedExtensions, showMessage, hasShownMessage, lifecycle,
          inFlight, intervalArmed, effectHas, timeouts, hideShow, hideDuration,
          onDetectCalls, pc, probeOutcomes, detectResult, filterResult>>

envVars == <<hasWindow, targetExtensions, props>>
fixedVars == <<hasWindow, targetExtensions>>
callVars == <<pc, probeOutcomes, detectResult, filterResult>>

(***************************************************************************)
(* Bounds                                                                  *)
(***************************************************************************)
MaxCatalog == 3      \* longest catalog of a direct call
MaxUnwanted == 3     \* longest unwanted list of a direct call
MaxInFlight == 2     \* rounds in flight at once
MaxCalls == 2        \* recorded onDetect invocations
MaxTimers == 2       \* pending auto-hide timers

Names == {"A", "B", "C"}
Outside == "X"       \* a name no catalog entry carries
Null == "null"       \* the null of line 18 and line 21

Range(s) == {s[i] : i \in 1..Len(s)}

\* sequences without repetition over S, of length at most n
RECURSIVE DistinctSeqs(_, _)
DistinctSeqs(S, n) ==
    IF n = 0 THEN {<<>>}
    ELSE LET shorter == DistinctSeqs(S, n - 1)
             longest == {t \in shorter : Len(t) = n - 1}
         IN shorter \cup
            UNION {{Append(t, x) : x \in S \ Range(t)} : t \in longest}

Outcomes == {"ok", "status", "throw"}   \* response.ok, !response.ok, fetch threw
DisplayModes == {"silent", "alert", "banner", "modal", "block"}
\* autoHideDuration?: number, as a sequence of length 0 (undefined) or 1
AutoHideDurations == {<<>>, <<0>>, <<500>>, <<800>>}
CheckIntervals == {0, 1000}

Catalogs == DistinctSeqs(Names, MaxCatalog)
UnwantedLists == DistinctSeqs(Names \cup {Outside}, MaxUnwanted)
\* the catalogs and unwanted lists of mounted components
MountedCatalogs == {<<"A">>, <<"A", "B">>}
MountedUnwanted == {<<"A">>, <<"B", "A">>, <<Outside, "B">>}

(***************************************************************************)
(* checkExtensions, lines 8-28                                             *)
(***************************************************************************)
\* mutant of probe: the catch block rethrows
probeRethrows(outcome, name) ==
    CASE outcome = "ok"     -> [rejected |-> FALSE, value |-> name]
      [] outcome = "status" -> [rejected |-> FALSE, value |-> Null]
      [] outcome = "throw"  -> [rejected |-> TRUE, value |-> Null]

\* lines 14-23: one entry's async callback; a fetch that throws is caught
probe(outcome, name) ==
    CASE outcome = "ok"     -> [rejected |-> FALSE, value |-> name]
      [] outcome = "status" -> [rejected |-> FALSE, value |-> Null]
      [] outcome = "throw"  -> [rejected |-> FALSE, value |-> Null]

\* mutant of windowUndefined: the guard never holds
windowNeverUndefined(win) == FALSE

\* line 11: typeof window === "undefined"
windowUndefined(win) == ~win

\* probes: the number of fetch calls issued
checkExtensions(win, catalog, outcomes) ==
    IF windowUndefined(win)
    THEN [status |-> "resolved", value |-> <<>>, probes |-> 0]
    ELSE LET results == [i \in 1..Len(catalog) |-> probe(outcomes[i], catalog[i])]
             values == [i \in 1..Len(catalog) |-> results[i].value]
         IN IF \E i \in 1..Len(catalog) : results[i].rejected
            THEN [status |-> "rejected", value |-> <<>>, probes |-> Len(catalog)]
            ELSE [status |-> "resolved",
                  value |-> SelectSeq(values, LAMBDA res : res # Null),
                  probes |-> Len(catalog)]

(***************************************************************************)
(* The unwanted filter, lines 189-191 and 224-226                          *)
(***************************************************************************)
includes(list, ext) == \E i \in 1..Len(list) : list[i] = ext

\* mutant of detectedUnwanted: the unwanted list filtered by the installed names
detectedUnwantedCallerOrder(installed, unwanted) ==
    SelectSeq(unwanted, LAMBDA ext : includes(installed, ext))

detectedUnwanted(installed, unwanted) ==
    SelectSeq(installed, LAMBDA ext : includes(unwanted, ext))

(***************************************************************************)
(* The component, lines 163-410                                            *)
(***************************************************************************)
unwantedExtensions == props.unwantedExtensions
onDetect == props.onDetect              \* TRUE: a callback was supplied
displayMode == props.displayMode
autoHideDuration == props.autoHideDuration
checkInterval == props.checkInterval

\* line 180: the early return of checkAllExtensions; has is the value the
\* callback captured when it was created
checkReturnsEarly(win, has) == ~win \/ has

\* mutant of intervalWanted: the interval is set whatever checkInterval is
intervalAlways(interval) == TRUE

\* line 206
intervalWanted(interval) == interval > 0

\* mutant of autoHideWanted: the display mode is not looked at
autoHideWantedAnyMode(duration, show, mode) ==
    /\ Len(duration) = 1 /\ duration[1] # 0
    /\ show

\* line 214: autoHideDuration && showMessage && displayMode !== "block"
autoHideWanted(duration, show, mode) ==
    /\ Len(duration) = 1 /\ duration[1] # 0
    /\ show
    /\ mode # "block"

\* line 268: the close button is part of the content unless the mode is block
closeButtonRendered(mode) == mode # "block"

\* mutant of render: the content stays while a round is in flight
renderWhileChecking(checking, show, installed, unwanted, mode) ==
    IF ~show \/ Len(detectedUnwanted(installed, unwanted)) = 0
    THEN "null"
    ELSE CASE mode = "silent" -> "null"
           [] mode = "banner" -> "banner"
           [] mode = "modal"  -> "modal"
           [] mode = "block"  -> "block"
           [] OTHER           -> "alert"

\* mutant of render: the silent mode falls through to the default style
renderSilentAsAlert(checking, show, installed, unwanted, mode) ==
    IF checking \/ ~show \/ Len(detectedUnwanted(installed, unwanted)) = 0
    THEN "null"
    ELSE CASE mode = "banner" -> "banner"
           [] mode = "modal"  -> "modal"
           [] mode = "block"  -> "block"
           [] OTHER           -> "alert"

\* lines 224-235 and 300-409: what the component returns
render(checking, show, installed, unwanted, mode) ==
    IF checking \/ ~show \/ Len(detectedUnwanted(installed, unwanted)) = 0
    THEN "null"
    ELSE CASE mode = "silent" -> "null"
           [] mode = "banner" -> "banner"
           [] mode = "modal"  -> "modal"
           [] mode = "block"  -> "block"
           [] OTHER           -> "alert"

rendered == render(checkingExtensions, showMessage, installedExtensions,
                   unwantedExtensions, displayMode)

\* a state setter: React drops the update of a component that was unmounted
setState(current, new) == IF lifecycle = "unmounted" THEN current ELSE new

\* mutant of shouldNotify: the length is not tested
shouldNotifyAlways(found) == TRUE

\* line 194: detectedUnwanted.length > 0
shouldNotify(found) == Len(found) > 0

\* line 208: the cleanup of the re-check effect
clearInterval(armed) == FALSE

\* mutant of clearTimeout: the auto-hide effect returns no cleanup
keepTimeout(pending) == pending

\* line 219: the cleanup of the auto-hide effect clears the timer its run set
clearTimeout(pending) == IF pending > 0 THEN pending - 1 ELSE 0

timeoutArmed == timeouts > 0

NoResult == [status |-> "none", value |-> <<>>, probes |-> 0]

DefaultProps(unwanted) ==
    [unwantedExtensions |-> unwanted, onDetect |-> FALSE, displayMode |-> "alert",
     autoHideDuration |-> <<>>, checkInterval |-> 0]

\* lines 42-142: the props; onDetect is required when displayMode is "silent"
PropsSets ==
    {p \in [unwantedExtensions : MountedUnwanted, onDetect : BOOLEAN,
            displayMode : DisplayModes, autoHideDuration : AutoHideDurations,
            checkInterval : CheckIntervals] :
        p.displayMode = "silent" => p.onDetect}

\* lines 174-177: the first render of a component, before its effects ran
InitComponent ==
    /\ lifecycle = "rendered"
    /\ hasWindow \in BOOLEAN
    /\ targetExtensions \in MountedCatalogs
    /\ props \in PropsSets
    /\ pc = "none"
    /\ probeOutcomes = <<>>

\* a direct call of checkExtensions on a catalog, then of the filter
InitCall ==
    /\ lifecycle = "none"
    /\ hasWindow \in BOOLEAN
    /\ targetExtensions \in Catalogs
    /\ props \in {DefaultProps(u) : u \in UnwantedLists}
    /\ pc = "call"
    /\ probeOutcomes \in [1..Len(targetExtensions) -> Outcomes]

Init ==
    /\ InitComponent \/ InitCall
    /\ checkingExtensions = FALSE
    /\ installedExtensions = <<>>
    /\ showMessage = FALSE
    /\ hasShownMessage = FALSE
    /\ inFlight = 0
    /\ intervalArmed = FALSE
    /\ effectHas = FALSE
    /\ timeouts = 0
    /\ hideShow = FALSE
    /\ hideDuration = <<>>
    /\ onDetectCalls = <<>>
    /\ detectResult = NoResult
    /\ filterResult = <<>>

\* lines 179-186: checkAllExtensions up to its await, called with the
\* hasShownMessage its closure captured
StartRound(has) ==
    IF checkReturnsEarly(hasWindow, has)
    THEN UNCHANGED <<checkingExtensions, inFlight>>
    ELSE /\ inFlight < MaxInFlight
         /\ checkingExtensions' = setState(checkingExtensions, TRUE)
         /\ inFlight' = inFlight + 1

\* lines 203-210: the re-check effect, run with the checkAllExtensions that
\* captured has; the cleanup of its previous run comes first
RecheckEffect(has) ==
    /\ effectHas' = has
    /\ StartRound(has)
    /\ intervalArmed' = (clearInterval(intervalArmed) \/ intervalWanted(checkInterval))

\* lines 213-221: the auto-hide effect, run with showMessage = show; the
\* cleanup of its previous run comes first
AutoHideEffect(show) ==
    /\ hideShow' = show
    /\ hideDuration' = autoHideDuration
    /\ timeouts' = clearTimeout(timeouts)
                      + (IF autoHideWanted(autoHideDuration, show, displayMode)
                         THEN 1 ELSE 0)
    /\ timeouts' <= MaxTimers

\* lines 210 and 221: each effect runs again only when a dependency changed
RunEffects(show, has) ==
    /\ IF has # effectHas
       THEN RecheckEffect(has)
       ELSE UNCHANGED <<effectHas, checkingExtensions, inFlight, intervalArmed>>
    /\ IF show # hideShow \/ autoHideDuration # hideDuration
       THEN AutoHideEffect(show)
       ELSE UNCHANGED <<hideShow, hideDuration, timeouts>>

\* the effects of the first commit: both run
Mount ==
    /\ lifecycle = "rendered"
    /\ lifecycle' = "mounted"
    /\ RecheckEffect(hasShownMessage)
    /\ AutoHideEffect(showMessage)
    /\ UNCHANGED <<envVars, callVars, installedExtensions, showMessage,
                   hasShownMessage, onDetectCalls>>

\* line 207: the interval timer fires and calls the checkAllExtensions it was given
IntervalFire ==
    /\ intervalArmed
    /\ StartRound(effectHas)
    /\ UNCHANGED <<envVars, callVars, installedExtensions, showMessage,
                   hasShownMessage, lifecycle, intervalArmed, effectHas,
                   timeouts, hideShow, hideDuration, onDetectCalls>>

\* lines 184-200: a round's checkExtensions settles and checkAllExtensions resumes
RoundComplete ==
    /\ inFlight > 0
    /\ \E outcomes \in [1..Len(targetExtensions) -> Outcomes] :
          LET settled == checkExtensions(hasWindow, targetExtensions, outcomes)
              installed == settled.value
              found == detectedUnwanted(installed, unwantedExtensions)
          IN /\ inFlight' = inFlight - 1
             /\ IF settled.status = "rejected"
                THEN UNCHANGED <<checkingExtensions, installedExtensions, showMessage,
                                 hasShownMessage, onDetectCalls>>
                ELSE /\ installedExtensions' = setState(installedExtensions, installed)
                     /\ checkingExtensions' = setState(checkingExtensions, FALSE)
                     /\ IF shouldNotify(found)
                        THEN /\ showMessage' = setState(showMessage, TRUE)
                             /\ hasShownMessage' = setState(hasShownMessage, TRUE)
                             /\ IF onDetect
                                THEN /\ Len(onDetectCalls) < MaxCalls
                                     /\ onDetectCalls' = Append(onDetectCalls, found)
                                ELSE UNCHANGED onDetectCalls
                        ELSE UNCHANGED <<showMessage, hasShownMessage, onDetectCalls>>
    /\ UNCHANGED <<envVars, callVars, lifecycle, intervalArmed, effectHas,
                   timeouts, hideShow, hideDuration>>

\* React runs the pending passive effects
FlushEffects ==
    /\ lifecycle = "mounted"
    /\ \/ hasShownMessage # effectHas
       \/ showMessage # hideShow
       \/ autoHideDuration # hideDuration
    /\ RunEffects(showMessage, hasShownMessage)
    /\ UNCHANGED <<envVars, callVars, installedExtensions, showMessage,
                   hasShownMessage, lifecycle, onDetectCalls>>

\* mutant of Dismiss: the close button also forgets that the warning was shown
DismissForgets ==
    /\ lifecycle = "mounted"
    /\ rendered # "null"
    /\ closeButtonRendered(displayMode)
    /\ showMessage' = FALSE
    /\ hasShownMessage' = FALSE
    /\ RunEffects(FALSE, FALSE)
    /\ UNCHANGED <<envVars, callVars, installedExtensions, lifecycle, onDetectCalls>>

\* lines 268-271: a click on the close button; the render and the effects that
\* follow a click are synchronous
Dismiss ==
    /\ lifecycle = "mounted"
    /\ rendered # "null"
    /\ closeButtonRendered(displayMode)
    /\ showMessage' = FALSE
    /\ RunEffects(FALSE, hasShownMessage)
    /\ UNCHANGED <<envVars, callVars, installedExtensions, hasShownMessage,
                   lifecycle, onDetectCalls>>

\* line 216: the auto-hide timer expires
AutoHideFire ==
    /\ timeouts > 0
    /\ timeouts' = timeouts - 1
    /\ showMessage' = setState(showMessage, FALSE)
    /\ UNCHANGED <<envVars, callVars, checkingExtensions, installedExtensions,
                   hasShownMessage, lifecycle, inFlight, intervalArmed, effectHas,
                   hideShow, hideDuration, onDetectCalls>>

\* lines 208 and 219: React runs the cleanups of both effects
Unmount ==
    /\ lifecycle = "mounted"
    /\ lifecycle' = "unmounted"
    /\ intervalArmed' = clearInterval(intervalArmed)
    /\ timeouts' = clearTimeout(timeouts)
    /\ UNCHANGED <<envVars, callVars, checkingExtensions, installedExtensions,
                   showMessage, hasShownMessage, inFlight, effectHas, hideShow,
                   hideDuration, onDetectCalls>>

\* lines 163-173: the parent renders the component again with another
\* autoHideDuration; the auto-hide effect will run again (line 221). React
\* runs the effects of a render before it renders the component with new
\* props, so the auto-hide effect has seen the present autoHideDuration.
ChangeAutoHideDuration ==
    /\ lifecycle = "mounted"
    /\ hideDuration = autoHideDuration
    /\ \E duration \in AutoHideDurations \ {autoHideDuration} :
          props' = [props EXCEPT !.autoHideDuration = duration]
    /\ UNCHANGED <<fixedVars, callVars, checkingExtensions, installedExtensions,
                   showMessage, hasShownMessage, lifecycle, inFlight, intervalArmed,
                   effectHas, timeouts, hideShow, hideDuration, onDetectCalls>>

compVars == <<checkingExtensions, installedExtensions, showMessage, hasShownMessage,
              lifecycle, inFlight, intervalArmed, effectHas, timeouts, hideShow,
              hideDuration, onDetectCalls>>

\* lines 8-28: the direct call settles
Detect ==
    /\ pc = "call"
    /\ detectResult' = checkExtensions(hasWindow, targetExtensions, probeOutcomes)
    /\ pc' = "detected"
    /\ UNCHANGED <<envVars, compVars, probeOutcomes, filterResult>>

\* lines 189-191: the filter applied to what the direct call returned
Filter ==
    /\ pc = "detected"
    /\ detectResult.status = "resolved"
    /\ filterResult' = detectedUnwanted(detectResult.value, unwantedExtensions)
    /\ pc' = "filtered"
    /\ UNCHANGED <<envVars, compVars, probeOutcomes, detectResult>>

Next ==
    \/ Mount
    \/ IntervalFire
    \/ RoundComplete
    \/ FlushEffects
    \/ Dismiss
    \/ AutoHideFire
    \/ Unmount
    \/ ChangeAutoHideDuration
    \/ Detect
    \/ Filter

Spec == Init /\ [][Next]_vars

\* React flushes pending effects, a pending timeout expires, a fetch settles
FairSpec ==
    /\ Spec
    /\ WF_vars(FlushEffects)
    /\ WF_vars(AutoHideFire)
    /\ WF_vars(RoundComplete)

(***************************************************************************)
(* Properties                                                              *)
(***************************************************************************)
mountedRun == lifecycle \in {"rendered", "mounted", "unmounted"}

\* C1: within one component lifetime onDetect is invoked at most once
OnDetectAtMostOnce == Len(onDetectCalls) <= 1

\* C2: once hasShownMessage is true, showMessage never goes from false to
\* true again
NoReshowAfterNotified ==
    [][(hasShownMessage /\ ~showMessage) => ~showMessage']_vars

\* C3: at most one detection round is in flight in every reachable state
AtMostOneRoundInFlight == inFlight <= 1

\* a step in which a round of a mounted component settles
roundSettles == lifecycle = "mounted" /\ inFlight' < inFlight

\* C4: the completion of a round with a non-empty match list sets showMessage
\* and hasShownMessage and hands onDetect, if supplied, that round's match
\* list; a completion with an empty match list before any notification
\* leaves both false and invokes nothing; the notification happens at no
\* other step
NotifiedAtFirstMatch ==
    [][LET found == detectedUnwanted(installedExtensions', unwantedExtensions)
       IN /\ (roundSettles /\ Len(found) > 0) =>
                /\ showMessage' /\ hasShownMessage'
                /\ onDetectCalls' = IF onDetect THEN Append(onDetectCalls, found)
                                                ELSE onDetectCalls
          /\ (roundSettles /\ Len(found) = 0 /\ ~hasShownMessage) =>
                /\ ~showMessage /\ ~showMessage' /\ ~hasShownMessage'
                /\ onDetectCalls' = onDetectCalls
          /\ (~hasShownMessage /\ hasShownMessage') =>
                roundSettles /\ Len(found) > 0]_vars

\* C4 witness: a mounted component whose single notification carried the
\* match list [A] of a round that detected [A, B]
NotifiedAfterEmptyRound ==
    /\ lifecycle = "mounted"
    /\ hasShownMessage /\ showMessage
    /\ onDetectCalls = <<<<"A">>>>
    /\ installedExtensions = <<"A", "B">>
    /\ unwantedExtensions = <<"A">>
    /\ inFlight = 0

okEntries == {i \in 1..Len(targetExtensions) : probeOutcomes[i] = "ok"}

\* C5: checkExtensions never rejects, and with a window it resolves to exactly
\* the display names of the entries whose probe returned ok
DetectReturnsOkNames ==
    pc \in {"detected", "filtered"} =>
        /\ detectResult.status = "resolved"
        /\ hasWindow =>
              /\ Range(detectResult.value) = {targetExtensions[i] : i \in okEntries}
              /\ Len(detectResult.value) = Cardinality(okEntries)

\* C5 witness: a call whose probes gave all three outcomes
DetectedWithMixedOutcomes ==
    /\ pc = "detected"
    /\ hasWindow
    /\ Range(probeOutcomes) = Outcomes
    /\ Len(detectResult.value) = 1

\* C6: without a window checkExtensions returns the empty list and issues no
\* probe, and a component starts no round, keeps its state at the initial
\* values and never invokes onDetect
NoWindowShortCircuit ==
    ~hasWindow =>
        /\ pc \in {"detected", "filtered"} =>
              detectResult = [status |-> "resolved", value |-> <<>>, probes |-> 0]
        /\ mountedRun =>
              /\ inFlight = 0
              /\ ~checkingExtensions
              /\ installedExtensions = <<>>
              /\ ~showMessage
              /\ ~hasShownMessage
              /\ onDetectCalls = <<>>

\* C6 witness: a call without a window on a catalog whose probes would all
\* have returned ok
DetectedWithoutWindow ==
    /\ pc = "detected"
    /\ ~hasWindow
    /\ Len(targetExtensions) > 1
    /\ Range(probeOutcomes) = {"ok"}

\* the place of a name in the catalog
catalogIndex(name) == CHOOSE i \in 1..Len(targetExtensions) : targetExtensions[i] = name

inCatalogOrder(list) ==
    \A i, j \in 1..Len(list) :
        i < j => catalogIndex(list[i]) < catalogIndex(list[j])

\* C7: the match list is exactly the detected names that are in the unwanted
\* list, in catalog order whatever the order of the unwanted list; detected
\* {A,B}, unwanted [B,A,C], catalog [A,B,C] gives [A,B]
FilterInCatalogOrder ==
    /\ (pc = "filtered" /\ hasWindow) =>
          /\ Range(filterResult) =
                {targetExtensions[i] : i \in okEntries} \cap Range(unwantedExtensions)
          /\ inCatalogOrder(filterResult)
          /\ (/\ targetExtensions = <<"A", "B", "C">>
              /\ okEntries = {1, 2}
              /\ unwantedExtensions = <<"B", "A", "C">>) => filterResult = <<"A", "B">>
    /\ mountedRun =>
          \A k \in 1..Len(onDetectCalls) :
              /\ Range(onDetectCalls[k]) \subseteq Range(unwantedExtensions)
              /\ inCatalogOrder(onDetectCalls[k])

\* C7 witness: the example of the claim
FilteredExample ==
    /\ pc = "filtered"
    /\ hasWindow
    /\ targetExtensions = <<"A", "B", "C">>
    /\ okEntries = {1, 2}
    /\ unwantedExtensions = <<"B", "A", "C">>
    /\ filterResult = <<"A", "B">>

\* C8: in block mode no auto-hide timer is ever armed and no step (no timer,
\* no click) takes showMessage from true to false
BlockStaysVisible ==
    [][displayMode = "block" =>
          /\ ~timeoutArmed'
          /\ showMessage => showMessage']_vars

\* C8 witness: a block overlay is shown, autoHideDuration is 500 and the
\* auto-hide effect has run for the visible state
BlockShownWithDuration ==
    /\ displayMode = "block"
    /\ autoHideDuration = <<500>>
    /\ lifecycle = "mounted"
    /\ showMessage /\ hideShow
    /\ rendered = "block"

\* C10: after unmount neither the interval timer nor an auto-hide timer is
\* pending, so neither can fire
TeardownCancelsTimers ==
    lifecycle = "unmounted" =>
        /\ ~intervalArmed /\ ~timeoutArmed
        /\ ~ENABLED IntervalFire /\ ~ENABLED AutoHideFire

\* C10 witness: unmounted after the single notification, with a check
\* interval and an auto-hide delay that had both armed their timers
UnmountedWithTimersArmed ==
    /\ lifecycle = "unmounted"
    /\ checkInterval > 0
    /\ autoHideDuration = <<500>>
    /\ displayMode = "alert"
    /\ onDetect /\ Len(onDetectCalls) = 1
    /\ showMessage /\ hideShow /\ effectHas

autoHideModes == {"alert", "banner", "modal"}

\* line 214: the truthiness of autoHideDuration
positive(duration) == Len(duration) = 1 /\ duration[1] > 0

\* C9: with displayMode alert, banner or modal and an autoHideDuration (a
\* positive one), a mounted component whose showMessage is true eventually
\* has showMessage false, unless it is unmounted or its parent takes the
\* autoHideDuration away
AutoHideEventuallyHides ==
    (/\ lifecycle = "mounted"
     /\ showMessage
     /\ displayMode \in autoHideModes
     /\ positive(autoHideDuration))
        ~> (~showMessage \/ lifecycle = "unmounted" \/ ~positive(autoHideDuration))

\* C11: once the component is unmounted, a round that was in flight at the
\* teardown changes no state variable and does not invoke onDetect
UnmountedRoundIgnored ==
    [][lifecycle = "unmounted" =>
          UNCHANGED <<checkingExtensions, installedExtensions, showMessage,
                      hasShownMessage, onDetectCalls>>]_vars

\* a dismissal: the close button or the expiry of the auto-hide timer takes
\* showMessage from true to false
dismissed == showMessage /\ ~showMessage'

\* C12: no step takes hasShownMessage from true to false, and a dismissal
\* changes showMessage only: hasShownMessage, installedExtensions and
\* checkingExtensions keep their values and onDetect is not invoked
DismissalChangesOnlyShowMessage ==
    [][/\ hasShownMessage => hasShownMessage'
       /\ dismissed => UNCHANGED <<hasShownMessage, installedExtensions,
                                   checkingExtensions, onDetectCalls>>]_vars

\* a mounted component whose warning was notified, found something and has
\* been dismissed
DismissedAfterNotified ==
    /\ lifecycle = "mounted"
    /\ hasShownMessage
    /\ ~showMessage
    /\ Len(installedExtensions) > 0
    /\ Len(onDetectCalls) = 1

\* the matches of the present state, line 224
currentMatches == detectedUnwanted(installedExtensions, unwantedExtensions)

OneRoundOnMount ==
    /\ [](/\ checkInterval = 0 => ~intervalArmed
          /\ (lifecycle = "mounted" /\ checkInterval > 0) => intervalArmed)
    /\ [][/\ (lifecycle = "rendered" /\ lifecycle' = "mounted" /\ hasWindow)
                => inFlight' = inFlight + 1
          /\ (lifecycle = "mounted" /\ checkInterval = 0)
                => inFlight' <= inFlight]_vars

\* with checkInterval = 0 the mount round has notified and the re-check
\* effect has run again on the new callback, without a round of its own
NotifiedWithoutInterval ==
    /\ lifecycle = "mounted"
    /\ hasWindow
    /\ checkInterval = 0
    /\ hasShownMessage
    /\ effectHas
    /\ inFlight = 0
    /\ ~intervalArmed

\* C15: with displayMode silent nothing is rendered in any state, and a
\* round of the mounted component that settles with a non-empty match list
\* still invokes onDetect with that list
SilentRendersNothing ==
    /\ [](displayMode = "silent" => rendered = "null")
    /\ [][(displayMode = "silent" /\ roundSettles /\ Len(currentMatches') > 0)
             => onDetectCalls' = Append(onDetectCalls, currentMatches')]_vars

\* a silent component has detected and notified: every other mode would
\* render its style in this state
SilentNotified ==
    /\ lifecycle = "mounted"
    /\ displayMode = "silent"
    /\ showMessage
    /\ ~checkingExtensions
    /\ Len(currentMatches) > 0
    /\ onDetectCalls = <<currentMatches>>
    /\ rendered = "null"

autoHideEffectCurrent == hideShow = showMessage /\ hideDuration = autoHideDuration

RenderedListIsNotified ==
    (lifecycle = "mounted" /\ rendered # "null" /\ Len(onDetectCalls) > 0)
        => currentMatches = onDetectCalls[1]

\* C18: checkingExtensions is true exactly when a round has started and
\* not yet settled
CheckingTracksRounds ==
    lifecycle = "mounted" => (checkingExtensions <=> inFlight > 0)

\* C19: once hasShownMessage is true and the re-check effect has run again
\* with the callback that captured it, no interval firing starts a round
\* and installedExtensions is never refreshed again
DetectionStopsAfterNotified ==
    [][(hasShownMessage /\ effectHas)
          => /\ inFlight' <= inFlight
             /\ installedExtensions' = installedExtensions]_vars

\* C20: with displayMode block, once the overlay is rendered it is rendered
\* in every later state of the mounted component
BlockOverlayStaysRendered ==
    [][(displayMode = "block" /\ rendered = "block" /\ lifecycle' = "mounted")
          => rendered' = "block"]_vars

====
